---- MODULE Spec2Model ----
(***************************************************************************)
(* A model of llmrepo.tools (src/llmrepo/tools/__init__.py): the two-tier  *)
(* ToolContext, the toolbox that binds its tools' shared tier, parameter   *)
(* validation, the hook registry and the invoke / ainvoke interceptor.     *)
(***************************************************************************)
EXTENDS Integers, Sequences, FiniteSets, TLC

VARIABLES
    internal,     \* tool -> its ToolContext._internal_context (a map)
    dicts,        \* the dict objects shared tiers refer to: dict id -> map
    sharedRef,    \* tool -> the dict id its ToolContext._shared_context refers to
    constructed,  \* toolbox instance -> has BaseToolbox.__init__ run
    last,         \* the context / toolbox operation performed last
    nops,         \* number of context / toolbox operations performed so far
    parameters,   \* the tool's declared parameters, in declaration order
    hasAsync,     \* does the tool class override ainvoke
    registered,   \* history: the <<tool, event, callback>> that on(...) was
                  \* called for and returned
    hooks,        \* the _hooks registries: registry -> event -> callbacks in
                  \* registration order
    call,         \* the call in progress: an on(...), or one wrapped /
                  \* awrapped frame of the tool call.tool
    other         \* a second ainvoke call of the same tool, in flight but
                  \* suspended at an await while `call` runs

ctxVars == <<internal, dicts, sharedRef, constructed, last, nops>>

toolVars == <<parameters, hasAsync, hooks, registered, other>>

vars == <<internal, dicts, sharedRef, constructed, last, nops,
          parameters, hasAsync, hooks, registered, call, other>>

----------------------------------------------------------------------------
(* Bounds and universes of the context model.                              *)

\* context and toolbox operations in one behaviour
MaxOps == 3

Keys == {"k1", "k2"}

Vals == {1, 2}

\* what get() returns for a key in neither tier (its `default` argument)
Default == 0

\* Tool instances; each is a class attribute of exactly one toolbox class.
Tools == {"A", "B", "C"}

ToolboxClasses == {"TB1", "TB2"}

\* The tools a toolbox class declares as class attributes (a and b, or c),
\* by attribute name.
ClassTools(cls) == IF cls = "TB1" THEN <<"A", "B">> ELSE <<"C">>

\* Toolbox instances: T1 and T2 are two instances of the same class.
Toolboxes == {"T1", "T2", "T3"}

ClassOf(box) == IF box = "T3" THEN "TB2" ELSE "TB1"

\* Every dict object: the {} each ToolContext starts with (named by its
\* tool) and the context dict of each toolbox instance (named by the box).
DictIds == Tools \cup Toolboxes

EmptyMap == [k \in {} |-> 0]

\* initial private maps a tool may be built with, contexts a toolbox may get
InitialMaps == {EmptyMap, [k \in {"k1"} |-> 1]}

\* a write that keeps no other key
PutAlone(m, k, v) == [x \in {k} |-> v]

\* m[k] = v on a dict
Put(m, k, v) == [x \in (DOMAIN m) \cup {k} |-> IF x = k THEN v ELSE m[x]]

----------------------------------------------------------------------------
(* ToolContext                                                             *)

\* What a tool's _shared_context refers to when it is no dict: the None
\* that from_tools hands to __init__ when no context is given.
NoneRef == "None"

SharedIsNone(t) == sharedRef[t] = NoneRef

\* the dict a tool's _shared_context refers to
SharedOf(t) == dicts[sharedRef[t]]

\* ToolContext.get(key, default)
Get(t, k, d) ==
    IF k \in DOMAIN internal[t] THEN internal[t][k]
    ELSE IF k \in DOMAIN SharedOf(t) THEN SharedOf(t)[k]
    ELSE d

\* ToolContext.__contains__
Contains(t, k) == k \in DOMAIN internal[t] \/ k \in DOMAIN SharedOf(t)

\* a combined view in which the shared tier takes precedence
ContextViewSharedOver(t) ==
    [k \in (DOMAIN internal[t]) \cup (DOMAIN SharedOf(t)) |->
        IF k \in DOMAIN SharedOf(t) THEN SharedOf(t)[k] ELSE internal[t][k]]

\* ToolContext.context (getter): the combined view, internal over shared
ContextView(t) ==
    [k \in (DOMAIN internal[t]) \cup (DOMAIN SharedOf(t)) |->
        IF k \in DOMAIN internal[t] THEN internal[t][k] ELSE SharedOf(t)[k]]

\* ToolContext.__getitem__: the value returned, or KeyError(key) raised
getitem(t, k) ==
    IF k \in DOMAIN internal[t] THEN [raised |-> "", val |-> internal[t][k]]
    ELSE IF k \in DOMAIN SharedOf(t) THEN [raised |-> "", val |-> SharedOf(t)[k]]
    ELSE [raised |-> "KeyError", val |-> Default]

\* A call of context[key] on tool t: no tier is written.
GetItem(t, k) ==
    /\ nops < MaxOps
    /\ last' = [op |-> "getitem", tool |-> t, key |-> k, val |-> getitem(t, k).val,
                force |-> FALSE, tier |-> "",
                wasInternal |-> k \in DOMAIN internal[t],
                wasShared |-> k \in DOMAIN SharedOf(t),
                raised |-> getitem(t, k).raised]
    /\ nops' = nops + 1
    /\ UNCHANGED <<internal, dicts, sharedRef, constructed, toolVars, call>>

\* A call of get(key, default) on tool t: a key outside the private tier
\* is looked up with self._shared_context.get, which None does not have.
CallGet(t, k, d) ==
    /\ nops < MaxOps
    /\ LET fails == k \notin DOMAIN internal[t] /\ SharedIsNone(t) IN
       last' = [op |-> "get", tool |-> t, key |-> k,
                val |-> IF fails THEN Default ELSE Get(t, k, d),
                force |-> FALSE, tier |-> "",
                wasInternal |-> k \in DOMAIN internal[t],
                wasShared |-> ~SharedIsNone(t) /\ k \in DOMAIN SharedOf(t),
                raised |-> IF fails THEN "AttributeError" ELSE ""]
    /\ nops' = nops + 1
    /\ UNCHANGED <<internal, dicts, sharedRef, constructed, toolVars, call>>

\* A call of `key in context` on tool t: for a key outside the private tier
\* `key in self._shared_context` is evaluated, a TypeError on None.
CallContains(t, k) ==
    /\ nops < MaxOps
    /\ LET fails == k \notin DOMAIN internal[t] /\ SharedIsNone(t) IN
       last' = [op |-> "contains", tool |-> t, key |-> k,
                val |-> IF ~fails /\ Contains(t, k) THEN 1 ELSE 0,
                force |-> FALSE, tier |-> "",
                wasInternal |-> k \in DOMAIN internal[t],
                wasShared |-> ~SharedIsNone(t) /\ k \in DOMAIN SharedOf(t),
                raised |-> IF fails THEN "TypeError" ELSE ""]
    /\ nops' = nops + 1
    /\ UNCHANGED <<internal, dicts, sharedRef, constructed, toolVars, call>>

\* a set that creates new keys in the shared tier
SetTierNewKeysShared(t, k, force_shared) ==
    IF force_shared THEN "shared"
    ELSE IF k \in DOMAIN SharedOf(t) THEN "shared"
    ELSE IF k \in DOMAIN internal[t] THEN "internal"
    ELSE "shared"

\* The tier ToolContext.set writes: the branch order of the code.
SetTier(t, k, force_shared) ==
    IF force_shared THEN "shared"
    ELSE IF k \in DOMAIN SharedOf(t) THEN "shared"
    ELSE IF k \in DOMAIN internal[t] THEN "internal"
    ELSE "internal"

\* ToolContext.set(key, value, force_shared); on a shared tier that is None,
\* `key in None` and `None[key] = value` raise TypeError.
Set(t, k, v, force_shared) ==
    /\ nops < MaxOps
    /\ IF SharedIsNone(t)
       THEN /\ UNCHANGED <<internal, dicts>>
            /\ last' = [op |-> "set", tool |-> t, key |-> k, val |-> v,
                        force |-> force_shared, tier |-> "",
                        wasInternal |-> k \in DOMAIN internal[t],
                        wasShared |-> FALSE, raised |-> "TypeError"]
       ELSE LET tier == SetTier(t, k, force_shared) IN
            /\ IF tier = "shared"
               THEN /\ dicts' = [dicts EXCEPT ![sharedRef[t]] = Put(@, k, v)]
                    /\ UNCHANGED internal
               ELSE /\ internal' = [internal EXCEPT ![t] = Put(@, k, v)]
                    /\ UNCHANGED dicts
            /\ last' = [op |-> "set", tool |-> t, key |-> k, val |-> v,
                        force |-> force_shared, tier |-> tier,
                        wasInternal |-> k \in DOMAIN internal[t],
                        wasShared |-> k \in DOMAIN SharedOf(t), raised |-> ""]
    /\ nops' = nops + 1
    /\ UNCHANGED <<sharedRef, constructed, toolVars, call>>

----------------------------------------------------------------------------
(* BaseToolbox                                                             *)

\* One attribute of a toolbox instance: its name, the kind of object
\* getattr gives and, for a tool or the context dict, which one.
Attribute(name, kind, value) == [name |-> name, kind |-> kind, value |-> value]

Method(name) == Attribute(name, "method", "")

\* dir(self) and getattr(self, attr_name): the attributes of the instance
\* and of its class in sorted order of their names, the dunder methods of
\* object left out. The context is set before __init__ calls get_tools.
Dir(box) ==
    IF ClassOf(box) = "TB1"
    THEN << Method("_inject_context_to_tools"),
            Attribute("a", "BaseTool", "A"),
            Method("as_openai_tools"),
            Attribute("b", "BaseTool", "B"),
            Attribute("context", "dict", box),
            Method("from_tools"), Method("get_tools"), Method("on") >>
    ELSE << Method("_inject_context_to_tools"),
            Method("as_openai_tools"),
            Attribute("c", "BaseTool", "C"),
            Attribute("context", "dict", box),
            Method("from_tools"), Method("get_tools"), Method("on") >>

\* a test that every attribute passes
IsAnything(attr) == TRUE

\* isinstance(attr, BaseTool)
IsBaseTool(attr) == attr.kind = "BaseTool"

\* BaseToolbox.get_tools: the tool instances among the attributes, in the
\* order of dir(self)
get_tools(box) ==
    LET found == SelectSeq(Dir(box), IsBaseTool)
    IN  [i \in 1..Len(found) |-> found[i].value]

SeqRange(s) == {s[i] : i \in 1..Len(s)}

\* BaseToolbox._inject_context_to_tools: every discovered tool's
\* _shared_context is set to this instance's context dict.
InjectedRefs(box) ==
    [t \in Tools |-> IF t \in SeqRange(get_tools(box)) THEN box ELSE sharedRef[t]]

\* BaseToolbox.__init__(context=ctx)
Construct(box, ctx) ==
    /\ ~constructed[box]
    /\ nops < MaxOps
    /\ constructed' = [constructed EXCEPT ![box] = TRUE]
    /\ dicts' = [dicts EXCEPT ![box] = ctx]
    /\ sharedRef' = InjectedRefs(box)
    /\ last' = [op |-> "construct", tool |-> box, key |-> "", val |-> 0,
                force |-> FALSE, tier |-> "", wasInternal |-> FALSE,
                wasShared |-> FALSE, raised |-> ""]
    /\ nops' = nops + 1
    /\ UNCHANGED <<internal, toolVars, call>>

\* BaseToolbox.from_tools(tools, context): cls(tools=tools, context=context).
\* __init__ reads kwargs.get('context', {}), which is the None from_tools
\* passes when no context is given (`given` false), and never reads `tools`:
\* the tools injected are those get_tools finds on the class.
FromTools(box, tools, given, context) ==
    /\ ~constructed[box]
    /\ nops < MaxOps
    /\ constructed' = [constructed EXCEPT ![box] = TRUE]
    /\ dicts' = IF given THEN [dicts EXCEPT ![box] = context] ELSE dicts
    /\ sharedRef' = [t \in Tools |->
                        IF t \in SeqRange(get_tools(box))
                        THEN (IF given THEN box ELSE NoneRef)
                        ELSE sharedRef[t]]
    /\ last' = [op |-> "from_tools", tool |-> box, key |-> "", val |-> 0,
                force |-> FALSE, tier |-> "", wasInternal |-> FALSE,
                wasShared |-> FALSE, raised |-> "",
                tools |-> tools, given |-> given, context |-> context]
    /\ nops' = nops + 1
    /\ UNCHANGED <<internal, toolVars, call>>

----------------------------------------------------------------------------
(* Values, parameter declarations and exceptions                           *)

\* A Python value, by its runtime type (type(v).__name__) and a payload.
PyVal(ty, v) == [ty |-> ty, v |-> v]

NoneV == PyVal("NoneType", 0)

\* The keys of type_map: the type strings validation supports; each names
\* the native type it maps to.
TypeTags == {"str", "int", "float", "bool", "list", "dict", "tuple", "set"}

\* Type strings a ToolParameter may declare (ToolParameter.type is any str).
TypeStrs == TypeTags \cup {"STR", "string"}

\* str.lower() on the declared type strings
Lower(s) == IF s = "STR" THEN "str" ELSE s

\* type_map[type_str]
type_map(type_str) == type_str

\* Python's isinstance(value, expected_type): bool is a subclass of int.
IsInstance(value, expected_type) ==
    \/ value.ty = expected_type
    \/ value.ty = "bool" /\ expected_type = "int"

\* Values a caller supplies (payload 1) and declared defaults (payload 2).
SuppliedValues == {NoneV} \cup {PyVal(t, 1) : t \in TypeTags}

\* the values supplied to tools of two parameters
FewValues == {NoneV} \cup {PyVal(t, 1) : t \in {"str", "int", "float", "bool"}}

DefaultOf(type) ==
    PyVal(IF Lower(type) \in TypeTags THEN Lower(type) ELSE "str", 2)

\* ToolParameter(name, type, description, required, default)
ToolParameter(name, type, required, default) ==
    [name |-> name, type |-> type, required |-> required, default |-> default]

\* the declarations of one parameter: any of `types`, required or not,
\* without a default (None) or with one of the declared type
ParamSpecs(name, types) ==
    UNION {{ToolParameter(name, ty, req, dflt) :
               req \in BOOLEAN, dflt \in {NoneV, DefaultOf(ty)}} : ty \in types}

\* Exceptions: a kind, the parameter or event named, the keys named, and
\* for a callback's own exception the callback's place in its list.
Exc(kind, param, keys, n) == [kind |-> kind, param |-> param, keys |-> keys, n |-> n]

NoExc == Exc("none", "", {}, 0)

\* ValueError("Missing required parameter: <name>")
MissingRequiredParameter(name) == Exc("MissingRequiredParameter", name, {}, 0)

\* ValueError("Unexpected parameters: <set>")
UnexpectedParameter(keys) == Exc("UnexpectedParameter", "", keys, 0)

\* ValueError("Unsupported parameter type: <type>")
UnsupportedParameterType(name) == Exc("UnsupportedParameterType", name, {}, 0)

\* TypeError("Parameter '<name>' must be of type <type>, got <actual>")
TypeMismatch(name) == Exc("TypeMismatch", name, {}, 0)

\* an exception raised by the tool's own invoke / ainvoke body
LogicError == Exc("LogicError", "", {}, 0)

\* an exception raised by the n-th callback registered for `event`
HookError(event, n) == Exc("HookError", event, {}, n)

----------------------------------------------------------------------------
(* BaseTool._validate_parameters                                           *)

ParamNames(params) == {params[i].name : i \in 1..Len(params)}

\* `if not kwargs: return`
NoArguments(kwargs) == DOMAIN kwargs = {}

\* a check that finds no key unexpected
UnexpectedNone(params, kwargs) == {}

\* set(kwargs.keys()) - set(self.parameters.keys())
unexpected_params(params, kwargs) == (DOMAIN kwargs) \ ParamNames(params)

\* a validation that leaves a null argument as it is
NullKept(param_spec) == NoneV

\* `kwargs[param_name] = param_spec.default` for a null argument of an
\* optional parameter
NullReplaced(param_spec) == param_spec.default

\* The per-parameter loop from the i-th declared parameter on; kwargs is
\* updated in place, so what was injected stays when a later check raises.
RECURSIVE CheckParams(_, _, _)
CheckParams(params, i, kwargs) ==
    IF i > Len(params) THEN [err |-> NoExc, kwargs |-> kwargs]
    ELSE
    LET param_spec == params[i]
        param_name == param_spec.name
        absent == param_spec.required /\ param_name \notin DOMAIN kwargs
    IN  IF absent /\ param_spec.default = NoneV
        THEN [err |-> MissingRequiredParameter(param_name), kwargs |-> kwargs]
        ELSE
        LET kw == IF absent THEN Put(kwargs, param_name, param_spec.default)
                  ELSE kwargs
        IN  IF param_name \notin DOMAIN kw THEN CheckParams(params, i + 1, kw)
            ELSE IF kw[param_name] = NoneV
            THEN IF param_spec.required
                 THEN [err |-> TypeMismatch(param_name), kwargs |-> kw]
                 ELSE CheckParams(params, i + 1,
                                  Put(kw, param_name, NullReplaced(param_spec)))
            ELSE IF Lower(param_spec.type) \notin TypeTags
            THEN [err |-> UnsupportedParameterType(param_name), kwargs |-> kw]
            ELSE IF ~IsInstance(kw[param_name], type_map(Lower(param_spec.type)))
            THEN [err |-> TypeMismatch(param_name), kwargs |-> kw]
            ELSE CheckParams(params, i + 1, kw)

\* _validate_parameters(kwargs): the exception raised (NoExc when it
\* returns) and kwargs as the call leaves it.
validate_parameters(params, kwargs) ==
    IF NoArguments(kwargs) THEN [err |-> NoExc, kwargs |-> kwargs]
    ELSE IF unexpected_params(params, kwargs) # {}
    THEN [err |-> UnexpectedParameter(unexpected_params(params, kwargs)),
          kwargs |-> kwargs]
    ELSE CheckParams(params, 1, kwargs)

----------------------------------------------------------------------------
(* ToolEvent and the hook registry                                         *)

BEFORE_INVOKE == "invoke:before"

AFTER_INVOKE == "invoke:after"

BEFORE_AINVOKE == "ainvoke:before"

AFTER_AINVOKE == "ainvoke:after"

ERROR == "error"

ToolEvent == {BEFORE_INVOKE, AFTER_INVOKE, BEFORE_AINVOKE, AFTER_AINVOKE, ERROR}

\* callbacks registered, over all tools and events
MaxHooks == 4

RECURSIVE SumLen(_, _)
SumLen(h, evs) ==
    IF evs = {} THEN 0
    ELSE LET e == CHOOSE x \in evs : TRUE IN Len(h[e]) + SumLen(h, evs \ {e})

\* all instances of all tool classes using the one declared default
RegistryOfClass(t) == "A"

\* The registry object a tool instance's _hooks is: a private attribute,
\* whose declared default is copied for every instance at construction.
RegistryOf(t) == t

\* self._hooks of the tool whose call is in progress
self_hooks == hooks[RegistryOf(call.tool)]

RECURSIVE TotalHooks(_)
TotalHooks(rs) ==
    IF rs = {} THEN 0
    ELSE LET r == CHOOSE x \in rs : TRUE
         IN  SumLen(hooks[r], DOMAIN hooks[r]) + TotalHooks(rs \ {r})

\* A callback handle that is new to the tool's list for the event: the
\* callback's registration number.
NewCallback(t, event) == Len(hooks[RegistryOf(t)][event]) + 1

\* The call record of an idle tool.
Idle ==
    [pc |-> "idle", mode |-> "none", tool |-> "", event |-> "",
     inner |-> FALSE, idx |-> 0, nidx |-> 0, awaiting |-> 0,
     supplied |-> EmptyMap, kwargs |-> EmptyMap, fired |-> <<>>,
     exc |-> NoExc, orig |-> NoExc, validations |-> 0, logicRuns |-> 0,
     logicOk |-> FALSE, outcome |-> "none"]

\* ValueError("Invalid event '<event>'. Valid events are: ...")
UnknownEvent(event) == Exc("UnknownEvent", event, {}, 0)

\* a resolution that accepts every identifier
IsToolEventAny(event) == TRUE

\* ToolEvent(event) finds a member with that value
IsToolEvent(event) == event \in ToolEvent

\* A registration that would put the callback in front of the list.
Prepended(registry, event, callback) ==
    [e \in (DOMAIN registry) \cup {event} |->
        IF e = event
        THEN <<callback>> \o (IF e \in DOMAIN registry THEN registry[e] ELSE <<>>)
        ELSE registry[e]]

\* registry[event].append(callback), the registry being a defaultdict(list)
Appended(registry, event, callback) ==
    [e \in (DOMAIN registry) \cup {event} |->
        IF e = event
        THEN Append(IF e \in DOMAIN registry THEN registry[e] ELSE <<>>, callback)
        ELSE registry[e]]

\* the record of a finished on(...) call on `target`
Registered(target, mode, event, e) ==
    [Idle EXCEPT !.pc = "done", !.mode = mode, !.tool = target, !.event = event,
                 !.outcome = IF e = NoExc THEN "return" ELSE "raise", !.exc = e]

\* BaseTool.on(event, callback), event given as a string
On(t, event, callback) ==
    /\ call.pc = "idle"
    /\ TotalHooks(Tools) < MaxHooks
    /\ IF IsToolEvent(event)
       THEN /\ hooks' = [hooks EXCEPT ![RegistryOf(t)] = Appended(@, event, callback)]
            /\ registered' = registered \cup {<<t, event, callback>>}
            /\ call' = Registered(t, "on", event, NoExc)
       ELSE /\ UNCHANGED <<hooks, registered>>
            /\ call' = Registered(t, "on", event, UnknownEvent(event))
    /\ UNCHANGED <<ctxVars, parameters, hasAsync, other>>

\* for tool in self.get_tools(): tool.on(event, callback), from the i-th
\* tool on; h is the registries as the loop has left them so far.
RECURSIVE OnEach(_, _, _, _, _)
OnEach(h, tools, i, event, callback) ==
    IF i > Len(tools) THEN h
    ELSE OnEach([h EXCEPT ![RegistryOf(tools[i])] = Appended(@, event, callback)],
                tools, i + 1, event, callback)

\* BaseToolbox.on(event, callback), event given as a string: ToolEvent(event)
\* raises ValueError before any tool is reached.
OnToolbox(box, event, callback) ==
    /\ call.pc = "idle"
    /\ constructed[box]
    /\ TotalHooks(Tools) + Len(get_tools(box)) <= MaxHooks
    /\ IF IsToolEvent(event)
       THEN /\ hooks' = OnEach(hooks, get_tools(box), 1, event, callback)
            /\ registered' = registered \cup
                   {<<t, event, callback>> : t \in SeqRange(get_tools(box))}
            /\ call' = Registered(box, "toolbox.on", event, NoExc)
       ELSE /\ UNCHANGED <<hooks, registered>>
            /\ call' = Registered(box, "toolbox.on", event, UnknownEvent(event))
    /\ UNCHANGED <<ctxVars, parameters, hasAsync, other>>

----------------------------------------------------------------------------
(* BaseTool.__getattribute__: wrapped (the synchronous interceptor)        *)

\* One callback call, as the trace records it: the event, the callback,
\* the dispatch depth (2 for a secondary error dispatch) and whether the
\* callback raised.
Fired(event, cb, depth, threw) ==
    [ev |-> event, cb |-> cb, d |-> depth, threw |-> threw]

\* `return result` / an exception leaving wrapped: to the caller, or, when
\* wrapped runs inside the default ainvoke, back into awrapped's try block.
Leave(c, outcome, e) ==
    IF c.inner
    THEN IF outcome = "return"
         THEN [c EXCEPT !.inner = FALSE, !.pc = "aafter", !.idx = 1]
         ELSE [c EXCEPT !.inner = FALSE, !.pc = "aerror", !.idx = 1, !.exc = e]
    ELSE [c EXCEPT !.pc = "done", !.outcome = outcome, !.exc = e]

\* a loop that walks the list from its end
NextCallbackReversed(event, i) == self_hooks[event][Len(self_hooks[event]) + 1 - i]

\* `for callback in self._self_hooks[event]`: the callback of the i-th iteration
NextCallback(event, i) == self_hooks[event][i]

\* a handler that re-raises without calling the error callbacks
OnFailureNoHooks(c, e) == Leave(c, "raise", e)

\* a handler that goes on to the after callbacks
OnFailureGoesOn(c, e) == [c EXCEPT !.pc = "after", !.idx = 1, !.exc = e]

\* `except Exception as e:` in wrapped: the handler starts its loop over
\* the error callbacks, holding e.
OnFailure(c, e) == [c EXCEPT !.pc = "error", !.idx = 1, !.exc = e]

\* t.invoke(**kw): the caller enters wrapped.
InvokeSync(t, kw) ==
    /\ call.pc = "idle"
    /\ call' = [Idle EXCEPT !.pc = "before", !.mode = "sync", !.tool = t, !.idx = 1,
                            !.supplied = kw, !.kwargs = kw]
    /\ UNCHANGED <<ctxVars, toolVars>>

\* for callback in self._self_hooks[BEFORE_INVOKE]: callback(self, ...); an
\* exception of the callback leaves wrapped (the loop is outside the try).
FireBefore ==
    /\ call.pc = "before"
    /\ call.idx <= Len(self_hooks[BEFORE_INVOKE])
    /\ \E threw \in BOOLEAN :
        LET cb == NextCallback(BEFORE_INVOKE, call.idx)
            c == [call EXCEPT !.fired = Append(@, Fired(BEFORE_INVOKE, cb, 1, threw))]
        IN  call' = IF threw
                    THEN Leave(c, "raise", HookError(BEFORE_INVOKE, cb))
                    ELSE [c EXCEPT !.idx = @ + 1]
    /\ UNCHANGED <<ctxVars, toolVars>>

\* self._validate_parameters(kwargs) inside the try block
Validate ==
    /\ call.pc = "before"
    /\ call.idx > Len(self_hooks[BEFORE_INVOKE])
    /\ LET r == validate_parameters(parameters, call.kwargs)
           c == [call EXCEPT !.kwargs = r.kwargs, !.validations = @ + 1]
       IN  call' = IF r.err = NoExc
                   THEN [c EXCEPT !.pc = "logic"]
                   ELSE OnFailure([c EXCEPT !.orig = IF @ = NoExc THEN r.err ELSE @],
                                  r.err)
    /\ UNCHANGED <<ctxVars, toolVars>>

\* result = attr(*args, **kwargs): the tool's own invoke returns or raises
Logic ==
    /\ call.pc = "logic"
    /\ \E ok \in BOOLEAN :
        LET c == [call EXCEPT !.logicRuns = @ + 1, !.logicOk = ok]
        IN  call' = IF ok
                    THEN [c EXCEPT !.pc = "after", !.idx = 1]
                    ELSE OnFailure([c EXCEPT !.orig = IF @ = NoExc THEN LogicError
                                                      ELSE @],
                                   LogicError)
    /\ UNCHANGED <<ctxVars, toolVars>>

\* for callback in self._self_hooks[AFTER_INVOKE]: callback(self, result=...);
\* the loop is inside the try block, so its exception reaches the handler.
FireAfter ==
    /\ call.pc = "after"
    /\ call.idx <= Len(self_hooks[AFTER_INVOKE])
    /\ \E threw \in BOOLEAN :
        LET cb == NextCallback(AFTER_INVOKE, call.idx)
            c == [call EXCEPT !.fired = Append(@, Fired(AFTER_INVOKE, cb, 1, threw))]
        IN  call' = IF threw
                    THEN OnFailure(c, HookError(AFTER_INVOKE, cb))
                    ELSE [c EXCEPT !.idx = @ + 1]
    /\ UNCHANGED <<ctxVars, toolVars>>

\* return result
ReturnResult ==
    /\ call.pc = "after"
    /\ call.idx > Len(self_hooks[AFTER_INVOKE])
    /\ call' = Leave(call, "return", NoExc)
    /\ UNCHANGED <<ctxVars, toolVars>>

\* except Exception as e: for callback in self._self_hooks[ERROR]: callback(...);
\* an exception of the callback leaves the handler in place of e.
FireError ==
    /\ call.pc = "error"
    /\ call.idx <= Len(self_hooks[ERROR])
    /\ \E threw \in BOOLEAN :
        LET cb == NextCallback(ERROR, call.idx)
            c == [call EXCEPT !.fired = Append(@, Fired(ERROR, cb, 1, threw))]
        IN  call' = IF threw
                    THEN Leave(c, "raise", HookError(ERROR, cb))
                    ELSE [c EXCEPT !.idx = @ + 1]
    /\ UNCHANGED <<ctxVars, toolVars>>

\* raise (the handler re-raises e)
Reraise ==
    /\ call.pc = "error"
    /\ call.idx > Len(self_hooks[ERROR])
    /\ call' = Leave(call, "raise", call.exc)
    /\ UNCHANGED <<ctxVars, toolVars>>

\* The caller has the result or the exception; the frame is gone.
CallerReceives ==
    /\ call.pc = "done"
    /\ call' = Idle
    /\ UNCHANGED <<ctxVars, toolVars>>

----------------------------------------------------------------------------
(* BaseTool.__getattribute__: awrapped, and _trigger_event_async           *)

\* The event awrapped is dispatching at each of its three dispatch points.
DispatchEvent(pc) ==
    IF pc = "abefore" THEN BEFORE_AINVOKE
    ELSE IF pc = "aafter" THEN AFTER_AINVOKE
    ELSE ERROR

Dispatching == call.pc \in {"abefore", "aafter", "aerror"}

\* await t.ainvoke(**kw): the caller enters awrapped.
AInvoke(t, kw) ==
    /\ call.pc = "idle"
    /\ call' = [Idle EXCEPT !.pc = "abefore", !.mode = "async", !.tool = t, !.idx = 1,
                            !.supplied = kw, !.kwargs = kw]
    /\ UNCHANGED <<ctxVars, toolVars>>

\* a loop that calls its next callback without waiting for the last one
CanStartAlways(c) == TRUE

\* The loop of _trigger_event_async is at a callback only when the
\* callback before it has been awaited to its end.
CanStart(c) == c.awaiting = 0

\* `await callback(self, **kwargs)`, callback a coroutine function: the
\* callback of the dispatch (or of the secondary dispatch) that is next
\* starts and suspends; awrapped waits for it.
AAwait ==
    /\ Dispatching
    /\ CanStart(call)
    /\ call.nidx > 0 \/ call.idx <= Len(self_hooks[DispatchEvent(call.pc)])
    /\ call' = [call EXCEPT !.awaiting = @ + 1]
    /\ UNCHANGED <<ctxVars, toolVars>>

\* a handler that dispatches ERROR for every exception
RedispatchesAlways(event, threw) == threw

\* `except Exception as e: ... if event != ToolEvent.ERROR:` — the
\* exception of a callback starts a secondary dispatch of ERROR
Redispatches(event, threw) == threw /\ event # ERROR

\* the callbacks still awaited once one more call has ended
StillAwaited(c) == IF c.awaiting > 0 THEN c.awaiting - 1 ELSE 0

\* _trigger_event_async: the next callback of the event is called, or the
\* one awaited ends; its exception is caught and logged, and unless the
\* event is ERROR a secondary dispatch of ERROR starts before the loop
\* goes on.
AFire ==
    /\ Dispatching
    /\ call.nidx = 0
    /\ call.idx <= Len(self_hooks[DispatchEvent(call.pc)])
    /\ \E threw \in BOOLEAN :
        LET event == DispatchEvent(call.pc)
            cb == NextCallback(event, call.idx)
            c == [call EXCEPT !.fired = Append(@, Fired(event, cb, 1, threw)),
                              !.awaiting = StillAwaited(call)]
        IN  call' = IF Redispatches(event, threw) /\ Len(self_hooks[ERROR]) > 0
                    THEN [c EXCEPT !.nidx = 1]
                    ELSE [c EXCEPT !.idx = @ + 1]
    /\ UNCHANGED <<ctxVars, toolVars>>

\* The secondary dispatch _trigger_event_async(ERROR, error=e,
\* source_event=event): its next callback; what it raises is caught and
\* logged, with no further dispatch. After its last callback the outer
\* loop goes on with its next callback.
ANested ==
    /\ Dispatching
    /\ call.nidx > 0
    /\ \E threw \in BOOLEAN :
        LET cb == NextCallback(ERROR, call.nidx)
            c == [call EXCEPT !.fired = Append(@, Fired(ERROR, cb, 2, threw)),
                              !.awaiting = StillAwaited(call)]
        IN  call' = IF call.nidx < Len(self_hooks[ERROR])
                    THEN [c EXCEPT !.nidx = @ + 1]
                    ELSE [c EXCEPT !.nidx = 0, !.idx = @ + 1]
    /\ UNCHANGED <<ctxVars, toolVars>>

\* self._validate_parameters(kwargs) inside awrapped's try block
AValidate ==
    /\ call.pc = "abefore"
    /\ call.nidx = 0
    /\ call.awaiting = 0
    /\ call.idx > Len(self_hooks[BEFORE_AINVOKE])
    /\ LET r == validate_parameters(parameters, call.kwargs)
           c == [call EXCEPT !.kwargs = r.kwargs, !.validations = @ + 1]
       IN  call' = IF r.err = NoExc
                   THEN [c EXCEPT !.pc = "alogic"]
                   ELSE [c EXCEPT !.pc = "aerror", !.idx = 1, !.exc = r.err,
                                  !.orig = IF @ = NoExc THEN r.err ELSE @]
    /\ UNCHANGED <<ctxVars, toolVars>>

\* result = await attr(*args, **kwargs), the tool class overriding ainvoke:
\* the body starts and suspends at an await of its own; awrapped waits.
ALogicAwait ==
    /\ call.pc = "alogic"
    /\ hasAsync
    /\ call.awaiting = 0
    /\ call' = [call EXCEPT !.awaiting = 1]
    /\ UNCHANGED <<ctxVars, toolVars>>

\* result = await attr(*args, **kwargs), the tool class overriding ainvoke:
\* the body ends, at once or after it was suspended
ALogic ==
    /\ call.pc = "alogic"
    /\ hasAsync
    /\ \E ok \in BOOLEAN :
        LET c == [call EXCEPT !.logicRuns = @ + 1, !.logicOk = ok, !.awaiting = 0]
        IN  call' = IF ok
                    THEN [c EXCEPT !.pc = "aafter", !.idx = 1]
                    ELSE [c EXCEPT !.pc = "aerror", !.idx = 1, !.exc = LogicError,
                                   !.orig = IF @ = NoExc THEN LogicError ELSE @]
    /\ UNCHANGED <<ctxVars, toolVars>>

\* result = await attr(*args, **kwargs) with BaseTool.ainvoke itself: it
\* warns and returns self.invoke(*args, **kwargs), and self.invoke is the
\* attribute access that yields wrapped.
AFallback ==
    /\ call.pc = "alogic"
    /\ ~hasAsync
    /\ call' = [call EXCEPT !.pc = "before", !.idx = 1, !.inner = TRUE]
    /\ UNCHANGED <<ctxVars, toolVars>>

\* return result, after the AFTER_AINVOKE dispatch
AReturn ==
    /\ call.pc = "aafter"
    /\ call.nidx = 0
    /\ call.awaiting = 0
    /\ call.idx > Len(self_hooks[AFTER_AINVOKE])
    /\ call' = [call EXCEPT !.pc = "done", !.outcome = "return", !.exc = NoExc]
    /\ UNCHANGED <<ctxVars, toolVars>>

\* raise, after the ERROR dispatch of awrapped's handler
AReraise ==
    /\ call.pc = "aerror"
    /\ call.awaiting = 0
    /\ call.idx > Len(self_hooks[ERROR])
    /\ call' = [call EXCEPT !.pc = "done", !.outcome = "raise"]
    /\ UNCHANGED <<ctxVars, toolVars>>

\* a scheduler that resumes another coroutine at any point
AtAwaitAlways(c) == TRUE

\* The coroutine of call record c is suspended: inside a callback that
\* _trigger_event_async awaits, or inside the ainvoke body awrapped awaits.
\* These are the only awaits of awrapped and _trigger_event_async that
\* reach code which can suspend.
AtAwait(c) == c.mode = "async" /\ c.awaiting > 0

\* The event loop starts a second ainvoke call of the same tool while the
\* first is suspended: the first call's frame is kept as it is.
ASpawn(kw) ==
    /\ AtAwait(call)
    /\ other = Idle
    /\ other' = call
    /\ call' = [Idle EXCEPT !.pc = "abefore", !.mode = "async", !.tool = call.tool,
                            !.idx = 1, !.supplied = kw, !.kwargs = kw]
    /\ UNCHANGED <<ctxVars, parameters, hasAsync, hooks, registered>>

\* The event loop resumes the other call: the running one is suspended or
\* has ended. Each frame keeps its own position, arguments and trace.
Switch ==
    /\ other.pc \notin {"idle", "done"}
    /\ AtAwait(call) \/ call.pc = "done"
    /\ call' = other
    /\ other' = call
    /\ UNCHANGED <<ctxVars, parameters, hasAsync, hooks, registered>>

\* The caller has the outcome of every call it started.
Gathered ==
    /\ call.pc = "done"
    /\ other.pc \in {"idle", "done"}
    /\ call' = Idle
    /\ other' = Idle
    /\ UNCHANGED <<ctxVars, parameters, hasAsync, hooks, registered>>

----------------------------------------------------------------------------
(* Specifications                                                          *)

NoOp == [op |-> "none", tool |-> "", key |-> "", val |-> 0, force |-> FALSE,
         tier |-> "", wasInternal |-> FALSE, wasShared |-> FALSE, raised |-> ""]

\* BaseTool.__init__ / ToolContext.__init__: a private map, a fresh {} as
\* shared tier; no toolbox instance exists yet.
InitCtx ==
    /\ internal \in [Tools -> InitialMaps]
    /\ dicts = [d \in DictIds |-> EmptyMap]
    /\ sharedRef = [t \in Tools |-> t]
    /\ constructed = [b \in Toolboxes |-> FALSE]
    /\ last = NoOp
    /\ nops = 0

\* the same with every private map empty
InitCtxEmpty ==
    /\ internal = [t \in Tools |-> EmptyMap]
    /\ dicts = [d \in DictIds |-> EmptyMap]
    /\ sharedRef = [t \in Tools |-> t]
    /\ constructed = [b \in Toolboxes |-> FALSE]
    /\ last = NoOp
    /\ nops = 0

\* The tool of tests/conftest.py: text: str, required.
SimpleTool == <<ToolParameter("text", "str", TRUE, NoneV)>>

\* Tool declarations validation is checked on: no parameter, one parameter
\* of any declared type string, two parameters.
ToolDecls ==
    {<<>>}
    \cup {<<p>> : p \in ParamSpecs("p", TypeStrs)}
    \cup {<<p, q>> : p \in ParamSpecs("p", {"str", "int"}),
                     q \in ParamSpecs("q", {"str", "int"})}

\* Keyword arguments: any values for any of the declared names, and
\* possibly an undeclared key.
KwargsOver(names, values) ==
    UNION {[S -> values] : S \in SUBSET names}

WithExtra(kws) == kws \cup {Put(kw, "extra", PyVal("bool", 1)) : kw \in kws}

InitTool(decls, asyncs) ==
    /\ parameters \in decls
    /\ hasAsync \in asyncs
    /\ hooks = [t \in Tools |-> [e \in ToolEvent |-> <<>>]]
    /\ registered = {}
    /\ call = Idle
    /\ other = Idle

\* Context and toolbox operations on tools that are not being invoked.
SetAny == \E t \in Tools, k \in Keys, v \in Vals, f \in BOOLEAN : Set(t, k, v, f)

ConstructAny == \E b \in Toolboxes, ctx \in InitialMaps : Construct(b, ctx)

NextCtx == SetAny \/ ConstructAny

InitCtxSpec == InitCtx /\ InitTool({SimpleTool}, {TRUE})

SpecCtx == InitCtxSpec /\ [][NextCtx]_vars

\* Context writes, toolbox constructions and indexed reads, every tool
\* starting with an empty private map.
GetItemAny == \E t \in Tools, k \in Keys : GetItem(t, k)

NextRead == SetAny \/ ConstructAny \/ GetItemAny

InitRead == InitCtxEmpty /\ InitTool({SimpleTool}, {TRUE})

SpecRead == InitRead /\ [][NextRead]_vars

\* Toolboxes made with from_tools, of tools that are or are not the ones
\* the class declares, with and without a context, and context operations
\* of the tools afterwards.
GivenTools == {<<"A", "B">>, <<"A">>, <<"C">>}

FromToolsAny ==
    \E box \in Toolboxes, tools \in GivenTools, given \in BOOLEAN :
        \E context \in (IF given THEN InitialMaps ELSE {EmptyMap}) :
            FromTools(box, tools, given, context)

CallGetAny == \E t \in Tools, k \in Keys : CallGet(t, k, Default)

CallContainsAny == \E t \in Tools, k \in Keys : CallContains(t, k)

NextFrom == FromToolsAny \/ SetAny \/ CallGetAny \/ CallContainsAny

InitFrom == InitCtxEmpty /\ InitTool({SimpleTool}, {TRUE})

SpecFrom == InitFrom /\ [][NextFrom]_vars

\* the tool instance that is called
Self == "A"

\* Two ainvoke calls of one tool that overrides ainvoke, interleaved at
\* their awaits, with different arguments (valid, valid, ill-typed), after
\* callbacks were registered for the events of the asynchronous path.
AsyncEvents == {BEFORE_AINVOKE, AFTER_AINVOKE, ERROR}

TwoArgs ==
    {[n \in {"text"} |-> v] : v \in {PyVal("str", 1), PyVal("str", 2), PyVal("int", 1)}}

\* callbacks registered before two calls are interleaved
MaxHooksOfTwo == MaxHooks - 2

OnAsync ==
    /\ TotalHooks(Tools) < MaxHooksOfTwo
    /\ \E event \in AsyncEvents : On(Self, event, NewCallback(Self, event))

AInvokeFirst == \E kw \in TwoArgs : AInvoke(Self, kw)

ASpawnSecond == \E kw \in TwoArgs : ASpawn(kw)

NextTwo ==
    \/ OnAsync
    \/ AInvokeFirst
    \/ ASpawnSecond
    \/ Switch
    \/ AAwait
    \/ AFire
    \/ ANested
    \/ AValidate
    \/ ALogicAwait
    \/ ALogic
    \/ AReturn
    \/ AReraise
    \/ Gathered

InitTwo == InitCtxEmpty /\ InitTool({SimpleTool}, {TRUE})

SpecTwo == InitTwo /\ [][NextTwo]_vars

\* Synchronous calls, with any arguments, of a tool of any declaration
\* that has no callbacks registered.
ArgValues == IF Len(parameters) > 1 THEN FewValues ELSE SuppliedValues

InvokeAnyArgs ==
    \E kw \in WithExtra(KwargsOver(ParamNames(parameters), ArgValues)) :
        InvokeSync(Self, kw)

NextVal ==
    InvokeAnyArgs \/ Validate \/ Logic \/ ReturnResult \/ Reraise \/ CallerReceives

InitVal == InitCtxEmpty /\ InitTool(ToolDecls, {TRUE})

SpecVal == InitVal /\ [][NextVal]_vars

\* Calls, synchronous and asynchronous, of the tool of tests/conftest.py
\* with callbacks registered between the calls.
NarrowValues == {PyVal("str", 1), PyVal("int", 1)}

OnAny == \E event \in ToolEvent : On(Self, event, NewCallback(Self, event))

InvokeAny ==
    \E kw \in WithExtra(KwargsOver(ParamNames(parameters), NarrowValues)) :
        InvokeSync(Self, kw)

AInvokeAny ==
    \E kw \in WithExtra(KwargsOver(ParamNames(parameters), NarrowValues)) :
        AInvoke(Self, kw)

NextInvoke ==
    \/ OnAny
    \/ InvokeAny
    \/ FireBefore
    \/ Validate
    \/ Logic
    \/ FireAfter
    \/ ReturnResult
    \/ FireError
    \/ Reraise
    \/ AInvokeAny
    \/ AAwait
    \/ AFire
    \/ ANested
    \/ AValidate
    \/ ALogic
    \/ AFallback
    \/ AReturn
    \/ AReraise
    \/ CallerReceives

InitInvoke == InitCtxEmpty /\ InitTool({SimpleTool}, BOOLEAN)

SpecInvoke == InitInvoke /\ [][NextInvoke]_vars

\* Registrations, on tools and on toolboxes, under known and unknown event
\* names, and synchronous calls of every tool; the toolbox of
\* tests/test_toolbox.py and a toolbox of another class exist.
EventNames == {BEFORE_INVOKE, ERROR, "invoke:done"}

\* the functions registered as callbacks
Callbacks == {1, 2}

InitToolboxes ==
    /\ internal = [t \in Tools |-> EmptyMap]
    /\ dicts = [d \in DictIds |-> EmptyMap]
    /\ sharedRef = [t \in Tools |-> IF t = "C" THEN "T3" ELSE "T1"]
    /\ constructed = [b \in Toolboxes |-> b \in {"T1", "T3"}]
    /\ last = [op |-> "construct", tool |-> "T3", key |-> "", val |-> 0,
               force |-> FALSE, tier |-> "", wasInternal |-> FALSE,
               wasShared |-> FALSE, raised |-> ""]
    /\ nops = 2

OnTool ==
    \E t \in Tools, event \in EventNames, cb \in Callbacks : On(t, event, cb)

OnToolboxAny ==
    \E box \in Toolboxes, event \in EventNames, cb \in Callbacks :
        OnToolbox(box, event, cb)

InvokeTool ==
    \E t \in Tools : InvokeSync(t, [n \in ParamNames(parameters) |-> PyVal("str", 1)])

NextReg ==
    \/ OnTool
    \/ OnToolboxAny
    \/ InvokeTool
    \/ FireBefore
    \/ Validate
    \/ Logic
    \/ ReturnResult
    \/ FireError
    \/ Reraise
    \/ CallerReceives

InitReg == InitToolboxes /\ InitTool({SimpleTool}, {TRUE})

SpecReg == InitReg /\ [][NextReg]_vars

\* Context writes, toolbox constructions, registrations and synchronous
\* calls, the toolboxes of InitToolboxes existing.
OnBefore == On(Self, BEFORE_INVOKE, NewCallback(Self, BEFORE_INVOKE))

NextBox ==
    \/ SetAny
    \/ ConstructAny
    \/ OnBefore
    \/ InvokeTool
    \/ FireBefore
    \/ Validate
    \/ Logic
    \/ ReturnResult
    \/ Reraise
    \/ CallerReceives

InitBox == InitToolboxes /\ InitTool({SimpleTool}, {TRUE})

SpecBox == InitBox /\ [][NextBox]_vars

----------------------------------------------------------------------------
(* Claims about validation, under SpecVal                                  *)

\* The declared parameter is required and has no default.
RequiredNoDefault(ps) == ps.required /\ ps.default = NoneV

\* Argument n as supplied is valid: a declared key whose value has exactly
\* the native type of the declared tag.
ValidArg(n) ==
    \E i \in 1..Len(parameters) :
        /\ parameters[i].name = n
        /\ parameters[i].type \in TypeTags
        /\ call.supplied[n].ty = parameters[i].type

\* Declared parameter j gives validation nothing to reject: it is supplied
\* and valid, or it is absent and optional or has a default.
Harmless(j) ==
    IF parameters[j].name \in DOMAIN call.supplied
    THEN ValidArg(parameters[j].name)
    ELSE ~RequiredNoDefault(parameters[j])

SyncDone == call.pc = "done" /\ call.mode = "sync"

\* C1 (as claimed): a synchronous call that does not supply a required
\* parameter p without default, every supplied argument being valid and no
\* other parameter being at fault (the call may supply nothing at all),
\* raises MissingRequiredParameter naming p, and the logic has not run.
C1_MissingRequiredRejected ==
    \A i \in 1..Len(parameters) :
        ( /\ SyncDone
          /\ RequiredNoDefault(parameters[i])
          /\ parameters[i].name \notin DOMAIN call.supplied
          /\ \A n \in DOMAIN call.supplied : ValidArg(n)
          /\ \A j \in 1..Len(parameters) : j # i => Harmless(j) )
        => /\ call.outcome = "raise"
           /\ call.exc = MissingRequiredParameter(parameters[i].name)
           /\ call.logicRuns = 0

\* C2 (as claimed): a supplied non-null value whose runtime type is not
\* exactly the native type of the declared tag never reaches the logic, and
\* when nothing else is at fault the call raises TypeMismatch naming the
\* parameter.
C2_InexactTypeRejected ==
    \A i \in 1..Len(parameters) :
        LET ps == parameters[i] IN
        ( /\ SyncDone
          /\ ps.type \in TypeTags
          /\ ps.name \in DOMAIN call.supplied
          /\ call.supplied[ps.name] # NoneV
          /\ call.supplied[ps.name].ty # ps.type )
        => /\ call.logicRuns = 0
           /\ call.outcome = "raise"
           /\ ( ( /\ (DOMAIN call.supplied) \subseteq ParamNames(parameters)
                  /\ \A j \in 1..Len(parameters) : j # i => Harmless(j) )
                => call.exc = TypeMismatch(ps.name) )

UndeclaredKeys == (DOMAIN call.supplied) \ ParamNames(parameters)

\* C3: once validation has run on arguments holding an undeclared key, it
\* has raised UnexpectedParameter naming the undeclared keys, whatever the
\* other keys are (valid, missing or ill-typed), and the logic has not run.
C3_UnexpectedRejected ==
    (call.validations > 0 /\ UndeclaredKeys # {})
    => /\ call.orig = UnexpectedParameter(UndeclaredKeys)
       /\ call.logicRuns = 0
       /\ (call.pc = "done" => call.outcome = "raise")

\* C3 witness: a finished call with an undeclared key beside a declared
\* key of the wrong type and a missing required parameter.
C3_Witness ==
    /\ SyncDone
    /\ UndeclaredKeys # {}
    /\ call.exc.kind = "UnexpectedParameter"
    /\ \E i, j \in 1..Len(parameters) :
        /\ parameters[i].name \in DOMAIN call.supplied
        /\ ~ValidArg(parameters[i].name)
        /\ RequiredNoDefault(parameters[j])
        /\ parameters[j].name \notin DOMAIN call.supplied

\* Declared parameter i was supplied with the value null.
SuppliedNull(i) ==
    /\ parameters[i].name \in DOMAIN call.supplied
    /\ call.supplied[parameters[i].name] = NoneV

\* C17: once validation has run on arguments holding null for a declared
\* parameter: if the parameter is required the logic has not run and the
\* call raises, with TypeMismatch naming the parameter when nothing else is
\* at fault; if it is optional and the logic has run, the arguments the
\* logic got hold the parameter's declared default in its place.
C17_NullArgument ==
    \A i \in 1..Len(parameters) :
        (call.validations > 0 /\ SuppliedNull(i))
        => IF parameters[i].required
           THEN /\ call.logicRuns = 0
                /\ call.orig # NoExc
                /\ call.pc = "done" => call.outcome = "raise"
                /\ ( /\ UndeclaredKeys = {}
                     /\ \A j \in 1..Len(parameters) : j # i => Harmless(j) )
                   => call.orig = TypeMismatch(parameters[i].name)
           ELSE call.logicRuns > 0
                => /\ parameters[i].name \in DOMAIN call.kwargs
                   /\ call.kwargs[parameters[i].name] = parameters[i].default

\* C17 witness: a call has returned that supplied null for an optional
\* parameter with a declared default beside a valid required argument, and
\* the logic got the default.
C17_Witness ==
    /\ SyncDone /\ call.outcome = "return" /\ call.logicRuns = 1
    /\ Len(parameters) = 2
    /\ ~parameters[1].required /\ parameters[1].default = PyVal("int", 2)
    /\ SuppliedNull(1)
    /\ call.kwargs["p"] = PyVal("int", 2)
    /\ parameters[2].required /\ "q" \in DOMAIN call.supplied

\* Declared parameter i is absent from the supplied arguments and has a
\* default to fall back on: it is optional, or required with a default.
AbsentWithDefault(i) ==
    /\ parameters[i].name \notin DOMAIN call.supplied
    /\ ~parameters[i].required \/ parameters[i].default # NoneV

\* C18 (as claimed): when the logic has run, the arguments it got bind
\* every declared parameter that was not supplied and is optional, or
\* required with a default, to its declared default, and every supplied
\* non-null value is as it was supplied.
C18_DefaultsInjected ==
    call.logicRuns > 0
    => /\ \A i \in 1..Len(parameters) :
           AbsentWithDefault(i)
           => /\ parameters[i].name \in DOMAIN call.kwargs
              /\ call.kwargs[parameters[i].name] = parameters[i].default
       /\ \A n \in DOMAIN call.supplied :
           call.supplied[n] # NoneV => call.kwargs[n] = call.supplied[n]

----------------------------------------------------------------------------
(* Claims about the context store and the toolbox, under SpecCtx           *)

\* a and b are both members of some constructed toolbox instance
SameToolbox(a, b) ==
    \E box \in Toolboxes :
        constructed[box] /\ {a, b} \subseteq SeqRange(get_tools(box))

\* C4 (as claimed): in every reachable state, right after set(k, v) with
\* the default force_shared = False, get(k) on the same tool returns v.
C4_SetThenGet ==
    (last.op = "set" /\ ~last.force)
    => Get(last.tool, last.key, Default) = last.val

\* C5 (as claimed): right after tool A writes k = v to the shared tier
\* (force_shared, or a plain set of a key already in the shared tier),
\* get(k) on every other tool of the same toolbox returns v.
C5_SharedWriteVisible ==
    (last.op = "set" /\ (last.force \/ last.wasShared))
    => \A b \in Tools :
        (b # last.tool /\ SameToolbox(last.tool, b))
        => Get(b, last.key, Default) = last.val

\* C6 (as claimed): in every reachable state each member tool's shared
\* tier is the context of the toolbox instance it was attached to: the
\* reference is not rebound after the attachment.
C6_BoundToOwnToolbox ==
    \A box \in Toolboxes :
        constructed[box]
        => \A t \in SeqRange(get_tools(box)) : sharedRef[t] = box

\* the step is a plain set by tool a of key k that is in neither tier of a
CreatesPrivate(a, k) ==
    /\ nops' = nops + 1
    /\ last'.op = "set" /\ last'.tool = a /\ last'.key = k /\ ~last'.force
    /\ ~Contains(a, k)

\* C7: a plain set by tool A of a key in neither of its tiers puts the key
\* in A's private tier and leaves every other tool's context as it was: a
\* tool that did not contain the key does not contain it, and get on it
\* returns what it returned.
C7_PrivateKeyIsolated ==
    [][ \A a \in Tools, k \in Keys :
          CreatesPrivate(a, k)
          => /\ k \in DOMAIN internal'[a]
             /\ \A b \in Tools \ {a} :
                 /\ Contains(b, k)' = Contains(b, k)
                 /\ Get(b, k, Default)' = Get(b, k, Default)
                 /\ ContextView(b)' = ContextView(b) ]_vars

\* C7 witness: tool A has just created a private key that a sibling bound
\* to the same shared dict does not contain.
C7_Witness ==
    /\ last.op = "set" /\ ~last.force /\ ~last.wasInternal /\ ~last.wasShared
    /\ last.key \in DOMAIN internal[last.tool]
    /\ \E b \in Tools \ {last.tool} :
        /\ SameToolbox(last.tool, b)
        /\ sharedRef[b] = sharedRef[last.tool]
        /\ ~Contains(b, last.key)
        /\ Get(b, last.key, Default) = Default

----------------------------------------------------------------------------
(* Claims about the interceptor and its hooks, under SpecInvoke            *)

\* The calls of all callbacks registered for `event`, in registration
\* order, none raising.
AllOf(event) ==
    [i \in 1..Len(self_hooks[event]) |-> Fired(event, self_hooks[event][i], 1, FALSE)]

\* C8: when a synchronous call has returned its result, the callbacks
\* called during it are exactly: every invoke:before callback once, in
\* registration order, then every invoke:after callback once, in
\* registration order; no error callback was called.
C8_SuccessfulCallHooks ==
    (SyncDone /\ call.outcome = "return")
    => call.fired = AllOf(BEFORE_INVOKE) \o AllOf(AFTER_INVOKE)

\* C8 witness: a synchronous call has returned on a tool with two
\* invoke:before callbacks, an invoke:after and an error callback.
C8_Witness ==
    /\ SyncDone /\ call.outcome = "return"
    /\ Len(self_hooks[BEFORE_INVOKE]) = 2
    /\ Len(self_hooks[AFTER_INVOKE]) = 1
    /\ Len(self_hooks[ERROR]) = 1
    /\ Len(call.fired) = 3

\* the calls of all before callbacks, then of all error callbacks
BeforeThenError == AllOf(BEFORE_INVOKE) \o AllOf(ERROR)

\* C9 (as claimed): when a synchronous call has failed, the callbacks
\* called during it are the invoke:before callbacks, then the error
\* callbacks, and no invoke:after callback.
C9_FailingCallHooks ==
    (SyncDone /\ call.outcome = "raise")
    => /\ Len(call.fired) = Len(BeforeThenError)
       /\ \A i \in 1..Len(call.fired) :
           /\ call.fired[i].ev = BeforeThenError[i].ev
           /\ call.fired[i].cb = BeforeThenError[i].cb

\* The calls of the first n error callbacks, in registration order; only
\* the n-th may have raised.
ErrorsUpTo(n, lastThrew) ==
    [i \in 1..n |-> Fired(ERROR, self_hooks[ERROR][i], 1, i = n /\ lastThrew)]

\* C9 (amended): when a synchronous call whose validation or logic failed
\* has ended, it has raised, and the callbacks called during it are: every
\* invoke:before callback once, in registration order, then the error
\* callbacks in registration order, all of them or up to the first that
\* raised; no invoke:after callback was called.
C9_ValidationOrLogicFailure ==
    (SyncDone /\ call.orig # NoExc)
    => /\ call.outcome = "raise"
       /\ \E n \in 0..Len(self_hooks[ERROR]), lastThrew \in BOOLEAN :
           /\ call.fired = AllOf(BEFORE_INVOKE) \o ErrorsUpTo(n, lastThrew)
           /\ n < Len(self_hooks[ERROR]) => (n > 0 /\ lastThrew)

\* C9 witness: a synchronous call whose validation failed has ended on a
\* tool with invoke:before, invoke:after and two error callbacks, all
\* error callbacks called.
C9_Witness ==
    /\ SyncDone /\ call.orig.kind = "TypeMismatch"
    /\ Len(self_hooks[BEFORE_INVOKE]) = 1
    /\ Len(self_hooks[AFTER_INVOKE]) = 1
    /\ Len(self_hooks[ERROR]) = 2
    /\ Len(call.fired) = 3

\* C10 (as claimed): when a call, synchronous or asynchronous, whose
\* validation or logic failed has ended, it has raised that failure,
\* whatever the callbacks did.
C10_OriginalFailureSurfaces ==
    (call.pc = "done" /\ call.orig # NoExc)
    => (call.outcome = "raise" /\ call.exc = call.orig)

----------------------------------------------------------------------------
(* Claims about the order of the phases, under SpecInvoke                  *)

\* the step calls one callback
FiresCallback == Len(call'.fired) = Len(call.fired) + 1

\* the callback call the step adds to the trace
JustFired == call'.fired[Len(call'.fired)]

\* the callbacks of `event` called by the primary dispatch so far, in the
\* order of their calls
CalledOf(event) ==
    LET calls == SelectSeq(call.fired, LAMBDA f : f.ev = event /\ f.d = 1)
    IN  [i \in 1..Len(calls) |-> calls[i].cb]

\* the before event of the interceptor frame that is running
FrameBefore == IF call.pc = "before" THEN BEFORE_INVOKE ELSE BEFORE_AINVOKE

\* validations started before the running frame was entered
ValidationsOutside == IF call.inner THEN 1 ELSE 0

ValidationStarts == call'.validations = call.validations + 1

LogicStarts == call'.logicRuns = call.logicRuns + 1

\* C11: in every interceptor frame, synchronous or asynchronous, the
\* phases are ordered. When validation starts, every before callback of
\* the frame has been called, once and in registration order, and none is
\* called afterwards; the logic starts only after a validation that
\* succeeded, with no validation failed; an after callback is called only
\* after the logic has returned.
C11_PhasesOrdered ==
    [][ /\ ValidationStarts
           => /\ CalledOf(FrameBefore) = self_hooks[FrameBefore]
              /\ call.validations = ValidationsOutside
              /\ call.logicRuns = 0
        /\ (FiresCallback /\ JustFired.ev = FrameBefore /\ JustFired.d = 1)
           => /\ call.validations = ValidationsOutside
              /\ call.logicRuns = 0
        /\ LogicStarts
           => /\ call.validations > ValidationsOutside
              /\ call.orig = NoExc
              /\ call.logicRuns = 0
        /\ (FiresCallback /\ JustFired.ev \in {AFTER_INVOKE, AFTER_AINVOKE})
           => /\ call.logicRuns = 1
              /\ call.logicOk
              /\ call.orig = NoExc ]_vars

\* C11 witness: an asynchronous call of a tool with its own ainvoke has
\* returned after an ainvoke:before callback, validation, the logic and an
\* ainvoke:after callback.
C11_Witness ==
    /\ call.pc = "done" /\ call.mode = "async" /\ hasAsync
    /\ call.outcome = "return"
    /\ call.validations = 1 /\ call.logicRuns = 1
    /\ CalledOf(BEFORE_AINVOKE) = <<1>>
    /\ CalledOf(AFTER_AINVOKE) = <<1>>

----------------------------------------------------------------------------
(* Claims about the asynchronous interceptor, under SpecInvoke             *)

AsyncDone == call.pc = "done" /\ call.mode = "async"

\* some callback of one of `events` raised during the call
Raised(events) ==
    \E i \in 1..Len(call.fired) : call.fired[i].ev \in events /\ call.fired[i].threw

\* C12 (as claimed): when an ainvoke call has ended, what the caller has
\* is no exception of an ainvoke:before, ainvoke:after or error callback;
\* every ainvoke:before callback was called, and every ainvoke:after
\* callback when the call returned; and a call whose validation and logic
\* succeeded, no invoke:before or invoke:after callback raising, returned.
C12_AsyncHookContained ==
    AsyncDone
    => /\ ~( /\ call.exc.kind = "HookError"
             /\ call.exc.param \in {BEFORE_AINVOKE, AFTER_AINVOKE, ERROR} )
       /\ CalledOf(BEFORE_AINVOKE) = self_hooks[BEFORE_AINVOKE]
       /\ call.outcome = "return" => CalledOf(AFTER_AINVOKE) = self_hooks[AFTER_AINVOKE]
       /\ ( /\ call.orig = NoExc
            /\ call.logicOk
            /\ ~Raised({BEFORE_INVOKE, AFTER_INVOKE}) )
          => call.outcome = "return"

\* C13 (as claimed): when an ainvoke call of a tool without its own
\* ainvoke has ended, validation has run at most once, no invoke:before
\* and no invoke:after callback was called, and when the logic failed each
\* error callback was called exactly once.
C13_SingleInterception ==
    (AsyncDone /\ ~hasAsync)
    => /\ call.validations <= 1
       /\ CalledOf(BEFORE_INVOKE) = <<>>
       /\ CalledOf(AFTER_INVOKE) = <<>>
       /\ call.orig = LogicError => CalledOf(ERROR) = self_hooks[ERROR]

----------------------------------------------------------------------------
(* Claims about the hook registries, under SpecReg                         *)

\* the step is a call of on(...) on `target`, a tool or a toolbox
CallsOn(target) ==
    call.pc = "idle" /\ call'.pc = "done" /\ call'.tool = target
    /\ call'.mode \in {"on", "toolbox.on"}

\* C14: a registration on tool A leaves the callback lists of every other
\* tool instance as they were, and every callback called during a call of
\* a tool B has been registered on B for the event it is called for.
C14_OwnRegistry ==
    /\ [][ \A a \in Tools :
             (CallsOn(a) /\ call'.mode = "on")
             => \A b \in Tools \ {a} :
                 hooks'[RegistryOf(b)] = hooks[RegistryOf(b)] ]_vars
    /\ [](call.mode = "sync"
          => \A i \in 1..Len(call.fired) :
               <<call.tool, call.fired[i].ev, call.fired[i].cb>> \in registered)

\* C14 witness: tool B is being called and has called its own callback,
\* while tool A of the same class and toolbox has another callback
\* registered for the same event, on A only.
C14_Witness ==
    /\ call.mode = "sync" /\ call.tool = "B"
    /\ call.fired = <<Fired(BEFORE_INVOKE, 2, 1, FALSE)>>
    /\ hooks[RegistryOf("B")][BEFORE_INVOKE] = <<2>>
    /\ hooks[RegistryOf("A")][BEFORE_INVOKE] = <<1>>
    /\ <<"B", BEFORE_INVOKE, 1>> \notin registered

\* C15: a registration under an event name that is not a ToolEvent value,
\* on a tool or on a toolbox, raises UnknownEvent naming it and leaves
\* every registry as it was.
C15_UnknownEventRejected ==
    [][ \A target \in Tools \cup Toolboxes :
          (CallsOn(target) /\ call'.event \notin ToolEvent)
          => /\ call'.outcome = "raise"
             /\ call'.exc = UnknownEvent(call'.event)
             /\ hooks' = hooks ]_vars

\* C15 witness: on a toolbox whose tools have callbacks, a registration
\* under an unknown event name has raised.
C15_Witness ==
    /\ call.pc = "done" /\ call.mode = "toolbox.on" /\ call.tool = "T1"
    /\ call.event \notin ToolEvent
    /\ call.exc = UnknownEvent(call.event)
    /\ hooks[RegistryOf("A")][ERROR] = <<1>>
    /\ hooks[RegistryOf("B")][BEFORE_INVOKE] = <<2>>

\* the places in the trace of the primary calls of the callbacks of `event`
PlacesOf(event) ==
    {i \in 1..Len(call.fired) : call.fired[i].ev = event /\ call.fired[i].d = 1}

\* C16: when an ainvoke call of a tool with its own ainvoke has returned,
\* every ainvoke:before callback and every ainvoke:after callback was
\* called exactly once, in registration order, the former all before the
\* latter; and at every moment at most one callback is running: a callback
\* starts, and a callback call ends, only when no other callback is awaited.
C16_AsyncHooksInOrder ==
    /\ []( (AsyncDone /\ hasAsync /\ call.outcome = "return")
           => /\ CalledOf(BEFORE_AINVOKE) = self_hooks[BEFORE_AINVOKE]
              /\ CalledOf(AFTER_AINVOKE) = self_hooks[AFTER_AINVOKE]
              /\ \A i \in PlacesOf(BEFORE_AINVOKE), j \in PlacesOf(AFTER_AINVOKE) :
                  i < j )
    /\ [](call.awaiting <= 1)
    /\ [][ /\ call'.awaiting > call.awaiting => call.awaiting = 0
           /\ FiresCallback => call.awaiting + call'.awaiting <= 1 ]_vars

\* C16 witness: an ainvoke call of a tool with its own ainvoke is at its
\* second ainvoke:after callback, a coroutine that is being awaited, after
\* two ainvoke:before callbacks and the first ainvoke:after callback.
C16_Witness ==
    /\ call.mode = "async" /\ hasAsync
    /\ call.pc = "aafter" /\ call.awaiting = 1
    /\ Len(self_hooks[BEFORE_AINVOKE]) = 2
    /\ Len(self_hooks[AFTER_AINVOKE]) = 2
    /\ call.fired = AllOf(BEFORE_AINVOKE) \o <<Fired(AFTER_AINVOKE, 1, 1, FALSE)>>

----------------------------------------------------------------------------
(* Claims about the toolbox and the context store, under SpecBox           *)

NoDuplicates(seq) == \A i, j \in 1..Len(seq) : seq[i] = seq[j] => i = j

IsSet == nops' = nops + 1 /\ last'.op = "set"

\* map m2 is map m1 with k bound to v and every other key as it was
OnlyKeyWritten(m1, m2, k, v) ==
    /\ DOMAIN m2 = (DOMAIN m1) \cup {k}
    /\ m2[k] = v
    /\ \A x \in (DOMAIN m1) \ {k} : m2[x] = m1[x]

\* C20: set(k, v, force_shared) on tool t writes k = v in the shared tier of
\* t when force_shared holds or k is in that shared tier, and in the
\* private tier of t otherwise; the other tier, every other key of the tier
\* written, and every other dict stay as they were.
C20_SetWritesOneTier ==
    [][ IsSet
        => LET t == last'.tool
               k == last'.key
               v == last'.val
           IN  IF last'.force \/ k \in DOMAIN SharedOf(t)
               THEN /\ OnlyKeyWritten(SharedOf(t), dicts'[sharedRef[t]], k, v)
                    /\ internal' = internal
                    /\ \A d \in DictIds \ {sharedRef[t]} : dicts'[d] = dicts[d]
                    /\ sharedRef' = sharedRef
               ELSE /\ OnlyKeyWritten(internal[t], internal'[t], k, v)
                    /\ \A u \in Tools \ {t} : internal'[u] = internal[u]
                    /\ dicts' = dicts
                    /\ sharedRef' = sharedRef ]_vars

\* C20 witness: a plain set has just updated a key that is in both tiers
\* of the tool, whose shared tier holds another key as well; it wrote the
\* shared tier.
C20_Witness ==
    /\ last.op = "set" /\ ~last.force /\ last.wasInternal /\ last.wasShared
    /\ last.tier = "shared"
    /\ SharedOf(last.tool)[last.key] = last.val
    /\ internal[last.tool][last.key] # last.val
    /\ DOMAIN SharedOf(last.tool) = Keys

----------------------------------------------------------------------------
(* Claims about the dispatch of _trigger_event_async, under SpecInvoke     *)

\* the place of the last primary call before place i of the trace
PrimaryBefore(i) ==
    CHOOSE s \in 0..(i - 1) :
        /\ s > 0 => call.fired[s].d = 1
        /\ \A j \in (s + 1)..(i - 1) : call.fired[j].d = 2

\* the call at place s of the trace started a secondary dispatch
Thrower(s) ==
    /\ call.fired[s].d = 1 /\ call.fired[s].threw
    /\ call.fired[s].ev \in {BEFORE_AINVOKE, AFTER_AINVOKE}

\* How far the dispatch in progress has come: it grows with every step of
\* the dispatch and is bounded by the number of callbacks registered.
DispatchProgress(c) ==
    c.idx * (2 * Len(self_hooks[ERROR]) + 2) + 2 * c.nidx + c.awaiting

\* C21: the dispatches nest at most two deep. A call of a secondary
\* dispatch is the call of an error callback, in registration order, in a
\* dispatch started by an ainvoke:before or ainvoke:after callback that
\* raised, never by an error callback; once the ainvoke call has ended,
\* every such callback that raised is followed by exactly one secondary
\* dispatch of all error callbacks. Every step of a dispatch brings it
\* nearer its end, which bounds its length.
C21_BoundedReentry ==
    /\ [](call.mode = "async"
          => \A i \in 1..Len(call.fired) :
               /\ call.fired[i].d \in {1, 2}
               /\ call.fired[i].d = 2
                  => LET s == PrimaryBefore(i)
                     IN  /\ s > 0
                         /\ Thrower(s)
                         /\ i - s <= Len(self_hooks[ERROR])
                         /\ call.fired[i].ev = ERROR
                         /\ call.fired[i].cb = self_hooks[ERROR][i - s])
    /\ [](AsyncDone
          => \A s \in 1..Len(call.fired) :
               Thrower(s)
               => LET n == Len(self_hooks[ERROR])
                  IN  /\ s + n <= Len(call.fired)
                      /\ \A j \in 1..n : call.fired[s + j].d = 2
                      /\ s + n < Len(call.fired) => call.fired[s + n + 1].d = 1)
    /\ [][ (Dispatching /\ call'.pc = call.pc /\ call' # call)
           => /\ DispatchProgress(call') > DispatchProgress(call)
              /\ DispatchProgress(call')
                   <= (Len(self_hooks[DispatchEvent(call.pc)]) + 1)
                        * (2 * Len(self_hooks[ERROR]) + 2) ]_vars

\* C21 witness: an ainvoke call has ended in which an ainvoke:before
\* callback raised and, in the secondary dispatch, the first of two error
\* callbacks raised as well; the second was still called.
C21_Witness ==
    /\ AsyncDone /\ hasAsync /\ call.outcome = "return"
    /\ call.fired = << Fired(BEFORE_AINVOKE, 1, 1, TRUE),
                       Fired(ERROR, 1, 2, TRUE),
                       Fired(ERROR, 2, 2, FALSE) >>

----------------------------------------------------------------------------
(* Claims about callbacks that raise in wrapped, under SpecInvoke          *)

\* the call at place i of the trace is a callback of `event` that raised
RaisedAt(i, event) == call.fired[i].ev = event /\ call.fired[i].threw

\* C22 (as claimed): in a synchronous call, an invoke:before callback that
\* raised is the last callback called, validation and the logic have not
\* run, and the call ends raising that callback's exception; after an
\* invoke:after callback that raised no invoke:after callback is called,
\* and the call ends raising that callback's exception.
C22_SyncHookNotContained ==
    call.mode = "sync"
    => \A i \in 1..Len(call.fired) :
         /\ RaisedAt(i, BEFORE_INVOKE)
            => /\ i = Len(call.fired)
               /\ call.validations = 0 /\ call.logicRuns = 0
               /\ call.pc = "done" /\ call.outcome = "raise"
               /\ call.exc = HookError(BEFORE_INVOKE, call.fired[i].cb)
         /\ RaisedAt(i, AFTER_INVOKE)
            => /\ \A j \in (i + 1)..Len(call.fired) : call.fired[j].ev # AFTER_INVOKE
               /\ call.pc = "done"
                  => /\ call.outcome = "raise"
                     /\ call.exc = HookError(AFTER_INVOKE, call.fired[i].cb)

\* C23 (as claimed): when a synchronous call has ended, error callbacks
\* have been called if and only if error callbacks are registered and
\* validation or the logic raised.
C23_ErrorHooksIffFailure ==
    SyncDone
    => ( (CalledOf(ERROR) # <<>>)
         <=> (call.orig # NoExc /\ self_hooks[ERROR] # <<>>) )

----------------------------------------------------------------------------
(* Claims about failing asynchronous calls, under SpecInvoke               *)

\* C24 (as claimed): when an ainvoke call whose validation or logic failed
\* has ended, every ainvoke:before callback was called, in registration
\* order and before any error callback of the handler's dispatch; every
\* registered error callback was called; no ainvoke:after callback was
\* called; no callback's exception left the dispatch; and the call has
\* raised the failure.
C24_AsyncFailingCall ==
    (AsyncDone /\ call.orig # NoExc)
    => /\ CalledOf(BEFORE_AINVOKE) = self_hooks[BEFORE_AINVOKE]
       /\ \A i \in PlacesOf(BEFORE_AINVOKE), j \in PlacesOf(ERROR) : i < j
       /\ \A n \in 1..Len(self_hooks[ERROR]) :
           \E j \in PlacesOf(ERROR) : call.fired[j].cb = self_hooks[ERROR][n]
       /\ CalledOf(AFTER_AINVOKE) = <<>>
       /\ call.outcome = "raise"
       /\ call.exc = call.orig

----------------------------------------------------------------------------
(* Claims about registrations through a toolbox, under SpecReg             *)

\* C25: a registration on a toolbox under a ToolEvent value appends one
\* callback, the same for every tool, at the end of that event's list in
\* the registry of every tool of the toolbox; every other event's list of
\* those tools and every registry of a tool outside the toolbox stay as
\* they were; and no registry belongs to a toolbox.
C25_ToolboxOnFansOut ==
    /\ [][ \A box \in Toolboxes :
             (CallsOn(box) /\ call'.mode = "toolbox.on" /\ call'.event \in ToolEvent)
             => /\ call'.outcome = "return"
                /\ \E cb \in Callbacks :
                     \A t \in SeqRange(get_tools(box)) :
                        /\ hooks'[RegistryOf(t)][call'.event]
                             = Append(hooks[RegistryOf(t)][call'.event], cb)
                        /\ \A e \in ToolEvent \ {call'.event} :
                             hooks'[RegistryOf(t)][e] = hooks[RegistryOf(t)][e]
                /\ \A t \in Tools \ SeqRange(get_tools(box)) :
                     hooks'[RegistryOf(t)] = hooks[RegistryOf(t)] ]_vars
    /\ [](\A t \in Tools : RegistryOf(t) \notin Toolboxes)
    /\ []((DOMAIN hooks) \cap Toolboxes = {})

\* C25 witness: a registration on toolbox T1 for the error event has
\* returned; tool A had a callback for that event and one for another
\* event, tool B had none, and tool C is outside the toolbox.
C25_Witness ==
    /\ call.pc = "done" /\ call.mode = "toolbox.on" /\ call.tool = "T1"
    /\ call.event = ERROR /\ call.outcome = "return"
    /\ hooks[RegistryOf("A")][ERROR] = <<1, 2>>
    /\ hooks[RegistryOf("A")][BEFORE_INVOKE] = <<1>>
    /\ hooks[RegistryOf("B")][ERROR] = <<2>>
    /\ hooks[RegistryOf("C")][ERROR] = <<>>

----------------------------------------------------------------------------
(* Claims about declared type strings, under SpecVal                       *)

\* C26 (as claimed): once validation has run on arguments that supply a
\* non-null value, of any type, for a parameter whose declared type string
\* is not exactly one of the eight type tags (no undeclared key supplied,
\* every other parameter harmless), validation has failed with
\* UnsupportedParameterType naming the parameter and the logic has not run.
C26_TypeTagsExact ==
    \A i \in 1..Len(parameters) :
        ( /\ call.validations > 0
          /\ parameters[i].type \notin TypeTags
          /\ parameters[i].name \in DOMAIN call.supplied
          /\ call.supplied[parameters[i].name] # NoneV
          /\ UndeclaredKeys = {}
          /\ \A j \in 1..Len(parameters) : j # i => Harmless(j) )
        => /\ call.orig = UnsupportedParameterType(parameters[i].name)
           /\ call.logicRuns = 0

----------------------------------------------------------------------------
(* Claims about the reads of the context store, under SpecRead             *)

\* the step is a call of context[key]
IsGetItem == nops' = nops + 1 /\ last'.op = "getitem"

\* C27: in every reachable state, for every tool and key: get returns the
\* private value if the key is in the private tier, else the shared value
\* if it is in the shared tier, else the default given; context[key]
\* returns what get returns when the key is in either tier and raises
\* KeyError otherwise; `key in context` holds exactly when the key is in
\* either tier; the combined view has exactly those keys and maps each to
\* what get returns. And a call of context[key] gives that result and
\* leaves both tiers of every tool as they were.
C27_ReadsAgree ==
    /\ [](\A t \in Tools, k \in Keys, d \in Vals \cup {Default} :
            LET inPrivate == k \in DOMAIN internal[t]
                inShared  == k \in DOMAIN dicts[sharedRef[t]]
            IN  /\ Get(t, k, d) = IF inPrivate THEN internal[t][k]
                                  ELSE IF inShared THEN dicts[sharedRef[t]][k]
                                  ELSE d
                /\ Contains(t, k) <=> (inPrivate \/ inShared)
                /\ IF inPrivate \/ inShared
                   THEN /\ getitem(t, k).raised = ""
                        /\ getitem(t, k).val = Get(t, k, d)
                   ELSE getitem(t, k).raised = "KeyError"
                /\ (k \in DOMAIN ContextView(t)) <=> (inPrivate \/ inShared)
                /\ k \in DOMAIN ContextView(t) => ContextView(t)[k] = Get(t, k, d))
    /\ [][ IsGetItem
           => /\ internal' = internal /\ dicts' = dicts /\ sharedRef' = sharedRef
              /\ IF Contains(last'.tool, last'.key)
                 THEN /\ last'.raised = ""
                      /\ last'.val = Get(last'.tool, last'.key, Default)
                 ELSE last'.raised = "KeyError" ]_vars

\* C27 witness: context["k2"] has just raised KeyError on a tool that holds
\* k1 in both tiers with different values, the private one being what get
\* and the combined view give.
C27_Witness ==
    /\ last.op = "getitem" /\ last.key = "k2" /\ last.raised = "KeyError"
    /\ "k1" \in DOMAIN internal[last.tool]
    /\ "k1" \in DOMAIN SharedOf(last.tool)
    /\ internal[last.tool]["k1"] # SharedOf(last.tool)["k1"]
    /\ Get(last.tool, "k1", Default) = internal[last.tool]["k1"]
    /\ ~Contains(last.tool, "k2")

----------------------------------------------------------------------------
(* Claims about from_tools, under SpecFrom                                 *)

\* the step is a call of from_tools
IsFromTools == nops' = nops + 1 /\ last'.op = "from_tools"

\* the step is a context operation of a tool given to the from_tools call
\* that was the operation before
OperatesGivenTool ==
    /\ last.op = "from_tools"
    /\ nops' = nops + 1
    /\ last'.op \in {"get", "set", "contains"}
    /\ last'.tool \in SeqRange(last.tools)

\* C28 (as claimed): a call of from_tools(tools, context) makes a toolbox
\* whose get_tools is the given tools, whose context map is the given one,
\* or an empty map when none is given, and binds the shared tier of every
\* given tool to that map; and a get, set or `in` of a given tool right
\* after it raises nothing.
C28_FromToolsBuilds ==
    /\ [][ \A box \in Toolboxes :
             (IsFromTools /\ last'.tool = box)
             => /\ constructed'[box]
                /\ get_tools(box)' = last'.tools
                /\ dicts'[box] = IF last'.given THEN last'.context ELSE EmptyMap
                /\ \A t \in SeqRange(last'.tools) : sharedRef'[t] = box ]_vars
    /\ [][ OperatesGivenTool => last'.raised = "" ]_vars

----------------------------------------------------------------------------
(* Claims about two ainvoke calls in flight, under SpecTwo                 *)

\* the callbacks of `event` that the primary dispatch of the call of
\* record c has called and seen end, in the order of their calls
CalledIn(c, event) ==
    LET calls == SelectSeq(c.fired, LAMBDA f : f.ev = event /\ f.d = 1)
    IN  [i \in 1..Len(calls) |-> calls[i].cb]

\* the ainvoke body of the call of record c has started
LogicStartedIn(c) == c.logicRuns > 0 \/ (c.pc = "alogic" /\ c.awaiting > 0)

\* both calls are in flight
TwoInFlight == /\ call.mode = "async" /\ other.mode = "async"
               /\ other.pc \notin {"idle", "done"}

====
